---- MODULE Spec2Model ----
(***************************************************************************)
(* In-memory B+-tree index (package btree).                                *)
(*                                                                         *)
(* btree.go holds the tree: search, Get, Start/Next, Put, Append, split,   *)
(* PutNext, appendPage, CheckConsistency.  pager.go declares the Page and  *)
(* Pager interfaces and the page capacity.  The in-place page and pager    *)
(* implementation (newInplacePager, Page.Insert/Search/Split/Start,        *)
(* keyLess, copyBytes) is not part of the sources at hand; those           *)
(* definitions follow sections 4.1 and 4.2 of the specification and the    *)
(* interface comments of pager.go.                                         *)
(*                                                                         *)
(* Keys and values are byte strings, modelled as sequences of naturals.    *)
(* A Go nil slice is modelled by the record field isNil.                   *)
(***************************************************************************)
EXTENDS Integers, Sequences, FiniteSets, TLC

(***************************************************************************)
(* Bounds of the model.                                                    *)
(***************************************************************************)
\* half of the page capacity; the capacity itself must be even (pager.go:5)
HalfPage == 2
\* bytes of a key are drawn from 1..MaxByte
MaxByte == 2
\* keys are at most MaxKeyLen bytes long
MaxKeyLen == 4
\* prefixes given to Start are at most MaxPrefixLen bytes long
MaxPrefixLen == 2
\* a run is explored while keys + DevCost * deviations <= MaxWork, where a
\* deviation is a key of the universe skipped by an insertion, a write of a
\* key that is present, a first write with an empty value, or a PutNext
\* that breaks its contract
MaxWork == 17
DevCost == 5

\* keys per page; 100 in pager.go, scaled down here
ramPageSize == 2 * HalfPage

(***************************************************************************)
(* Byte strings.                                                           *)
(***************************************************************************)
\* lexicographic byte order, strict: a is a proper prefix of b, or a has
\* the smaller byte at the first position where the two differ
keyLess(x, y) ==
    \E i \in 1..Len(y) :
        /\ (i > Len(x) \/ x[i] < y[i])
        /\ \A j \in 1..(i - 1) : j <= Len(x) /\ x[j] = y[j]

keyLessEq(x, y) == x = y \/ keyLess(x, y)

HasPrefix(k, p) == Len(p) <= Len(k) /\ SubSeq(k, 1, Len(p)) = p

\* a copy of a byte slice has the same bytes
copyBytes(v) == v

Bytes == 1..MaxByte

\* the byte strings of 1..n bytes
BytesUpTo(n) == {SubSeq(f, 1, Len(f)) : f \in UNION {[1..m -> Bytes] : m \in 1..n}}

\* the non-empty keys the operations are called with
KeyUniverse == BytesUpTo(MaxKeyLen)

\* the prefixes Start is called with (the empty prefix included)
PrefixUniverse == {<<>>} \cup BytesUpTo(MaxPrefixLen)

(***************************************************************************)
(* Key records and pages (pager.go: Key, Page; specification 3 and 4.1).   *)
(* A page is [isLeaf, nextPage, keys]; keys is the ordered sequence of     *)
(* records [key, ref].  Position i of the Go page is keys[i + 1].  On an   *)
(* internal page position 0 holds the empty key and the first reference.   *)
(***************************************************************************)
KeyRec(k, r) == [key |-> k, ref |-> r]

NoRec == KeyRec(<<>>, -1)

NewPage(isLeaf) ==
    [isLeaf |-> isLeaf, nextPage |-> -1,
     keys |-> IF isLeaf THEN <<>> ELSE <<KeyRec(<<>>, -1)>>]

PageSize(p) == Len(p.keys)

\* GetKey(i): i counts from 0
GetKey(p, i) == p.keys[i + 1]

First(p) == p.keys[1].ref

SetFirst(p, ref) == [p EXCEPT !.keys[1] = KeyRec(<<>>, ref)]

NextPage(p) == p.nextPage

SetNextPage(p, ref) == [p EXCEPT !.nextPage = ref]

\* indexes (into keys) of the real records of a page
RealIdx(p) == IF p.isLeaf THEN 1..Len(p.keys) ELSE 2..Len(p.keys)

\* Search: the matching record, else the greatest record smaller than k,
\* else position 0 of an internal page (no record on a leaf)
PageSearch(p, k) ==
    LET eq == {i \in RealIdx(p) : p.keys[i].key = k}
        lt == {i \in RealIdx(p) : keyLess(p.keys[i].key, k)}
    IN  IF eq # {} THEN [ok |-> TRUE, rec |-> p.keys[CHOOSE i \in eq : TRUE]]
        ELSE IF lt # {}
             THEN [ok |-> FALSE,
                   rec |-> p.keys[CHOOSE i \in lt : \A j \in lt : j <= i]]
        ELSE IF p.isLeaf THEN [ok |-> FALSE, rec |-> NoRec]
        ELSE [ok |-> FALSE, rec |-> p.keys[1]]

InsertAt(s, i, e) == SubSeq(s, 1, i - 1) \o <<e>> \o SubSeq(s, i, Len(s))

\* the index at which a record with key k goes: after every smaller record
InsertPos(p, k) ==
    1 + Cardinality({i \in 1..Len(p.keys) :
                        i \notin RealIdx(p) \/ keyLess(p.keys[i].key, k)})

PageFull(p) == Len(p.keys) >= ramPageSize

\* Insert: false iff the page is at capacity; a key already on the page
\* keeps its place and takes the new ref
PageInsert(p, k, ref) ==
    IF PageFull(p) THEN [ok |-> FALSE, page |-> p]
    ELSE IF \E i \in RealIdx(p) : p.keys[i].key = k
    THEN [ok |-> TRUE,
          page |-> [p EXCEPT !.keys =
                      [i \in 1..Len(p.keys) |->
                          IF i \in RealIdx(p) /\ p.keys[i].key = k
                          THEN KeyRec(k, ref) ELSE p.keys[i]]]]
    ELSE [ok |-> TRUE,
          page |-> [p EXCEPT !.keys = InsertAt(p.keys, InsertPos(p, k), KeyRec(k, ref))]]

\* Split: the first half of the positions stays, the rest moves to the new
\* page; on an internal page the record of the split key is consumed and its
\* ref becomes the first reference of the new page
PageSplit(p, newPage) ==
    LET s == ramPageSize \div 2
        n == Len(p.keys)
        splitRec == p.keys[s + 1]
    IN  [splitKey |-> splitRec.key,
         page |-> [p EXCEPT !.keys = SubSeq(p.keys, 1, s)],
         newPage |-> IF p.isLeaf
                     THEN [newPage EXCEPT !.keys = SubSeq(p.keys, s + 1, n)]
                     ELSE [newPage EXCEPT !.keys =
                             <<KeyRec(<<>>, splitRec.ref)>> \o SubSeq(p.keys, s + 2, n)]]

\* Page.Start: the cursor stands at the first real record with key >= prefix
PageStart(p, prefix) ==
    1 + Cardinality({i \in 1..Len(p.keys) :
                        i \notin RealIdx(p) \/ keyLess(p.keys[i].key, prefix)})

\* PageIter.Next: yields records that start with the prefix, stops at the
\* first one that does not and at the end of the page
PageIterNext(p, prefix, pos) ==
    IF pos <= Len(p.keys) /\ HasPrefix(p.keys[pos].key, prefix)
    THEN [ok |-> TRUE, key |-> p.keys[pos].key, ref |-> p.keys[pos].ref, pos |-> pos + 1]
    ELSE [ok |-> FALSE, key |-> <<>>, ref |-> -1, pos |-> pos]

(***************************************************************************)
(* Pager (pager.go: Pager; specification 4.2).  The page with reference r  *)
(* is pager[r + 1]; New hands out the next free reference.                 *)
(***************************************************************************)
PagerGet(pg, ref) == pg[ref + 1]

PagerSet(pg, ref, p) == [pg EXCEPT ![ref + 1] = p]

PagerNew(pg, isLeaf) == [ref |-> Len(pg), pager |-> Append(pg, NewPage(isLeaf))]

(***************************************************************************)
(* The tree (btree.go: Btree).  A tree is the record                       *)
(* [pager, values, root, size] of the struct's fields, extended with four  *)
(* observations of the run: panic (the message of a fatal failure, "" when *)
(* none), splits (the number of Page.Split calls so far), appends (the     *)
(* number of appendPage calls so far) and dropped (the number of           *)
(* Page.Insert calls whose ignored result was false).  Slot i of the value *)
(* arena is values[i + 1].                                                 *)
(***************************************************************************)
\* a Go byte slice: nil, or the bytes b
Slice(bytes) == [isNil |-> FALSE, b |-> bytes]

NilSlice == [isNil |-> TRUE, b |-> <<>>]

Last(s) == s[Len(s)]

NewInMemoryBtree ==
    LET r == PagerNew(<<>>, FALSE)
        l == PagerNew(r.pager, TRUE)
        root == SetFirst(PagerGet(l.pager, r.ref), l.ref)
    IN  [pager |-> PagerSet(l.pager, r.ref, root), values |-> <<>>,
         root |-> r.ref, size |-> 0,
         panic |-> "", splits |-> 0, appends |-> 0, dropped |-> 0]

RECURSIVE searchFrom(_, _, _, _)
searchFrom(t, key, ref, pageRefs) ==
    LET p == PagerGet(t.pager, ref)
        r == PageSearch(p, key)
    IN  IF p.isLeaf
        THEN [ok |-> r.ok, k |-> r.rec, pageRefs |-> pageRefs]
        ELSE searchFrom(t, key, r.rec.ref, Append(pageRefs, r.rec.ref))

search(t, key) == searchFrom(t, key, t.root, <<t.root>>)

\* Get: the result carries panic instead of a value when the key is illegal
Get(t, key) ==
    IF key.isNil \/ Len(key.b) = 0
    THEN [panic |-> "Illegal key nil", ok |-> FALSE, value |-> <<>>]
    ELSE LET s == search(t, key.b)
         IN  [panic |-> "", ok |-> s.ok,
              value |-> IF s.ok THEN t.values[s.k.ref + 1] ELSE <<>>]

Size(t) == t.size

\* the split step with the failing record inserted before Page.Split
splitPage_InsertFirst(t, key, ref, pageRefs) ==
    LET n == Len(pageRefs)
        pageRef == pageRefs[n]
        page == PagerGet(t.pager, pageRef)
        parentRef == pageRefs[n - 1]
        nw == PagerNew(t.pager, page.isLeaf)
        newPageRef == nw.ref
        ins1 == PageInsert(page, key, ref)
        sp == PageSplit(ins1.page, PagerGet(nw.pager, newPageRef))
        newPage1 == SetNextPage(sp.newPage, NextPage(sp.page))
        page1 == SetNextPage(sp.page, newPageRef)
        pg1 == PagerSet(PagerSet(nw.pager, pageRef, page1), newPageRef, newPage1)
        ins == PageInsert(PagerGet(pg1, parentRef), sp.splitKey, newPageRef)
    IN  [t |-> [t EXCEPT !.pager = PagerSet(pg1, parentRef, ins.page),
                         !.splits = @ + 1,
                         !.dropped = IF ins1.ok THEN @ ELSE @ + 1],
         ok |-> ins.ok, splitKey |-> sp.splitKey, newPageRef |-> newPageRef,
         parentRef |-> parentRef]

\* the split step with the failing record put into the other half
splitPage_WrongHalf(t, key, ref, pageRefs) ==
    LET n == Len(pageRefs)
        pageRef == pageRefs[n]
        page == PagerGet(t.pager, pageRef)
        parentRef == pageRefs[n - 1]
        nw == PagerNew(t.pager, page.isLeaf)
        newPageRef == nw.ref
        sp == PageSplit(page, PagerGet(nw.pager, newPageRef))
        newPage1 == SetNextPage(sp.newPage, NextPage(sp.page))
        page1 == SetNextPage(sp.page, newPageRef)
        left == ~keyLess(key, sp.splitKey)
        ins1 == IF left THEN PageInsert(page1, key, ref)
                ELSE PageInsert(newPage1, key, ref)
        page2 == IF left THEN ins1.page ELSE page1
        newPage2 == IF left THEN newPage1 ELSE ins1.page
        pg1 == PagerSet(PagerSet(nw.pager, pageRef, page2), newPageRef, newPage2)
        ins == PageInsert(PagerGet(pg1, parentRef), sp.splitKey, newPageRef)
    IN  [t |-> [t EXCEPT !.pager = PagerSet(pg1, parentRef, ins.page),
                         !.splits = @ + 1],
         ok |-> ins.ok, splitKey |-> sp.splitKey, newPageRef |-> newPageRef,
         parentRef |-> parentRef]

\* the split step without page.SetNextPage(newPageRef)
splitPage_NoLink(t, key, ref, pageRefs) ==
    LET n == Len(pageRefs)
        pageRef == pageRefs[n]
        page == PagerGet(t.pager, pageRef)
        parentRef == pageRefs[n - 1]
        nw == PagerNew(t.pager, page.isLeaf)
        newPageRef == nw.ref
        sp == PageSplit(page, PagerGet(nw.pager, newPageRef))
        newPage1 == SetNextPage(sp.newPage, NextPage(sp.page))
        left == keyLess(key, sp.splitKey)
        ins1 == IF left THEN PageInsert(sp.page, key, ref)
                ELSE PageInsert(newPage1, key, ref)
        page2 == IF left THEN ins1.page ELSE sp.page
        newPage2 == IF left THEN newPage1 ELSE ins1.page
        pg1 == PagerSet(PagerSet(nw.pager, pageRef, page2), newPageRef, newPage2)
        ins == PageInsert(PagerGet(pg1, parentRef), sp.splitKey, newPageRef)
    IN  [t |-> [t EXCEPT !.pager = PagerSet(pg1, parentRef, ins.page),
                         !.splits = @ + 1],
         ok |-> ins.ok, splitKey |-> sp.splitKey, newPageRef |-> newPageRef,
         parentRef |-> parentRef]

\* the split step without parent.Insert(splitKey, newPageRef)
splitPage_NoParentInsert(t, key, ref, pageRefs) ==
    LET n == Len(pageRefs)
        pageRef == pageRefs[n]
        page == PagerGet(t.pager, pageRef)
        parentRef == pageRefs[n - 1]
        nw == PagerNew(t.pager, page.isLeaf)
        newPageRef == nw.ref
        sp == PageSplit(page, PagerGet(nw.pager, newPageRef))
        newPage1 == SetNextPage(sp.newPage, NextPage(sp.page))
        page1 == SetNextPage(sp.page, newPageRef)
        left == keyLess(key, sp.splitKey)
        ins1 == IF left THEN PageInsert(page1, key, ref)
                ELSE PageInsert(newPage1, key, ref)
        page2 == IF left THEN ins1.page ELSE page1
        newPage2 == IF left THEN newPage1 ELSE ins1.page
    IN  [t |-> [t EXCEPT !.pager = PagerSet(PagerSet(nw.pager, pageRef, page2),
                                            newPageRef, newPage2),
                         !.splits = @ + 1],
         ok |-> TRUE, splitKey |-> sp.splitKey, newPageRef |-> newPageRef,
         parentRef |-> parentRef]

\* split, lines 122-144: the page at the tail of the path is split, the
\* failing record goes into one of the halves, the split key into the parent.
\* The result is [t, ok, splitKey, newPageRef, parentRef]; ok is the result
\* of parent.Insert.
splitPage(t, key, ref, pageRefs) ==
    LET n == Len(pageRefs)
        pageRef == pageRefs[n]
        page == PagerGet(t.pager, pageRef)
        parentRef == pageRefs[n - 1]
        nw == PagerNew(t.pager, page.isLeaf)
        newPageRef == nw.ref
        sp == PageSplit(page, PagerGet(nw.pager, newPageRef))
        splitKey == sp.splitKey
        newPage1 == SetNextPage(sp.newPage, NextPage(sp.page))
        page1 == SetNextPage(sp.page, newPageRef)
        left == keyLess(key, splitKey)
        ins1 == IF left THEN PageInsert(page1, key, ref)
                ELSE PageInsert(newPage1, key, ref)
        page2 == IF left THEN ins1.page ELSE page1
        newPage2 == IF left THEN newPage1 ELSE ins1.page
        pg1 == PagerSet(PagerSet(nw.pager, pageRef, page2), newPageRef, newPage2)
        ins == PageInsert(PagerGet(pg1, parentRef), splitKey, newPageRef)
    IN  [t |-> [t EXCEPT !.pager = PagerSet(pg1, parentRef, ins.page),
                         !.splits = @ + 1,
                         !.dropped = IF ins1.ok THEN @ ELSE @ + 1],
         ok |-> ins.ok, splitKey |-> splitKey, newPageRef |-> newPageRef,
         parentRef |-> parentRef]

\* root promotion with newRoot.SetFirst(newRootRef)
promoteRoot_FirstSelf(t) ==
    LET nr == PagerNew(t.pager, FALSE)
        newRootRef == nr.ref
        newRoot == SetFirst(PagerGet(nr.pager, newRootRef), newRootRef)
    IN  [t EXCEPT !.pager = PagerSet(nr.pager, newRootRef, newRoot),
                  !.root = newRootRef]

\* split and appendPage, root promotion: a new internal root whose first
\* reference is the old root
promoteRoot(t) ==
    LET oldRootRef == t.root
        nr == PagerNew(t.pager, FALSE)
        newRootRef == nr.ref
        newRoot == SetFirst(PagerGet(nr.pager, newRootRef), oldRootRef)
    IN  [t EXCEPT !.pager = PagerSet(nr.pager, newRootRef, newRoot),
                  !.root = newRootRef]

RECURSIVE split(_, _, _, _)

\* split, lines 150-153: the split key goes into the new root t2.root
splitRoot(t2, r) == split(t2, r.splitKey, r.newPageRef, <<t2.root, r.parentRef>>)

\* split, lines 145-158: what follows the split step with the result r
splitParent(t, pageRefs, r) ==
    IF r.ok THEN r.t
    ELSE IF r.parentRef = t.root
    THEN IF Len(pageRefs) # 2 THEN [r.t EXCEPT !.panic = "insane"]
         ELSE splitRoot(promoteRoot(r.t), r)
    ELSE split(r.t, r.splitKey, r.newPageRef, SubSeq(pageRefs, 1, Len(pageRefs) - 1))

split(t, key, ref, pageRefs) ==
    splitParent(t, pageRefs, splitPage(t, key, ref, pageRefs))

\* Put, lines 177-181: page.Insert on the leaf at the tail of the path, and
\* split when the leaf is full
putInsert(t, key, vref, pageRefs, ins) ==
    IF ins.ok
    THEN [t EXCEPT !.pager = PagerSet(t.pager, Last(pageRefs), ins.page)]
    ELSE split(t, key, vref, pageRefs)

\* Put, lines 173-189: the value goes into the arena, the key is counted
putStored(t1, value) ==
    IF t1.panic # ""
    THEN [t |-> t1, replaced |-> FALSE, panic |-> t1.panic]
    ELSE [t |-> [t1 EXCEPT !.values = Append(t1.values, value), !.size = @ + 1],
          replaced |-> FALSE, panic |-> ""]

\* Put that overwrites the newest slot instead of the slot of the key
putFound_LastSlot(t, key, value, s) ==
    IF s.ok
    THEN [t |-> [t EXCEPT !.values[Len(t.values)] = value],
          replaced |-> TRUE, panic |-> ""]
    ELSE putStored(putInsert(t, key, Len(t.values), s.pageRefs,
                             PageInsert(PagerGet(t.pager, Last(s.pageRefs)),
                                        key, Len(t.values))),
                   copyBytes(value))

\* Put, lines 166-189: s is the result of search
putFound(t, key, value, s) ==
    IF s.ok
    THEN [t |-> [t EXCEPT !.values[s.k.ref + 1] = value],
          replaced |-> TRUE, panic |-> ""]
    ELSE putStored(putInsert(t, key, Len(t.values), s.pageRefs,
                             PageInsert(PagerGet(t.pager, Last(s.pageRefs)),
                                        key, Len(t.values))),
                   copyBytes(value))

\* Put that counts a replaced key as a new one
Put_CountsReplace(t, key, valuev) ==
    IF key.isNil \/ Len(key.b) = 0 \/ valuev.isNil
    THEN [t |-> t, replaced |-> FALSE, panic |-> "Illegal nil key or value"]
    ELSE LET s == search(t, key.b)
         IN  IF s.ok
             THEN [t |-> [t EXCEPT !.values[s.k.ref + 1] = valuev.b, !.size = @ + 1],
                   replaced |-> TRUE, panic |-> ""]
             ELSE LET vref == Len(t.values)
                      pageRef == Last(s.pageRefs)
                      ins == PageInsert(PagerGet(t.pager, pageRef), key.b, vref)
                      t1 == IF ins.ok
                            THEN [t EXCEPT !.pager = PagerSet(t.pager, pageRef, ins.page)]
                            ELSE split(t, key.b, vref, s.pageRefs)
                  IN  [t |-> [t1 EXCEPT !.values = Append(t1.values, valuev.b),
                                        !.size = @ + 1],
                       replaced |-> FALSE, panic |-> ""]

\* Put that leaves its named result unset when it overwrites
Put_ReplacedUnset(t, key, valuev) ==
    IF key.isNil \/ Len(key.b) = 0 \/ valuev.isNil
    THEN [t |-> t, replaced |-> FALSE, panic |-> "Illegal nil key or value"]
    ELSE LET s == search(t, key.b)
         IN  IF s.ok
             THEN [t |-> [t EXCEPT !.values[s.k.ref + 1] = valuev.b],
                   replaced |-> FALSE, panic |-> ""]
             ELSE LET vref == Len(t.values)
                      pageRef == Last(s.pageRefs)
                      ins == PageInsert(PagerGet(t.pager, pageRef), key.b, vref)
                      t1 == IF ins.ok
                            THEN [t EXCEPT !.pager = PagerSet(t.pager, pageRef, ins.page)]
                            ELSE split(t, key.b, vref, s.pageRefs)
                  IN  [t |-> [t1 EXCEPT !.values = Append(t1.values, valuev.b),
                                        !.size = @ + 1],
                       replaced |-> FALSE, panic |-> ""]

\* Put that does not check the value for nil
Put_NoValueCheck(t, key, valuev) ==
    IF key.isNil \/ Len(key.b) = 0
    THEN [t |-> t, replaced |-> FALSE, panic |-> "Illegal nil key or value"]
    ELSE LET s == search(t, key.b)
         IN  IF s.ok
             THEN [t |-> [t EXCEPT !.values[s.k.ref + 1] = valuev.b],
                   replaced |-> TRUE, panic |-> ""]
             ELSE LET vref == Len(t.values)
                      pageRef == Last(s.pageRefs)
                      ins == PageInsert(PagerGet(t.pager, pageRef), key.b, vref)
                      t1 == IF ins.ok
                            THEN [t EXCEPT !.pager = PagerSet(t.pager, pageRef, ins.page)]
                            ELSE split(t, key.b, vref, s.pageRefs)
                  IN  [t |-> [t1 EXCEPT !.values = Append(t1.values, valuev.b),
                                        !.size = @ + 1],
                       replaced |-> FALSE, panic |-> ""]

\* Put: the result is [t, replaced, panic]
Put(t, key, valuev) ==
    IF key.isNil \/ Len(key.b) = 0 \/ valuev.isNil
    THEN [t |-> t, replaced |-> FALSE, panic |-> "Illegal nil key or value"]
    ELSE putFound(t, key.b, valuev.b, search(t, key.b))

\* the test of Put's result inverted
appendPut_Inverted(r) ==
    IF r.panic # "" THEN [t |-> r.t, panic |-> r.panic]
    ELSE IF ~r.replaced
    THEN [t |-> r.t, panic |-> "Did not expect to have to replace the value"]
    ELSE [t |-> r.t, panic |-> ""]

\* Append, lines 200-203: r is the result of Put
appendPut(r) ==
    IF r.panic # "" THEN [t |-> r.t, panic |-> r.panic]
    ELSE IF r.replaced
    THEN [t |-> r.t, panic |-> "Did not expect to have to replace the value"]
    ELSE [t |-> r.t, panic |-> ""]

\* Append, lines 197-204: s is the result of search
appendFound(t, key, value, s) ==
    IF s.ok
    THEN [t |-> [t EXCEPT !.values[s.k.ref + 1] = @ \o value.b], panic |-> ""]
    ELSE appendPut(Put(t, key, value))

\* Append that puts the new bytes in front of the old value
BtreeAppend_Prepend(t, key, value) ==
    IF key.isNil \/ Len(key.b) = 0 \/ value.isNil
    THEN [t |-> t, panic |-> "Illegal nil key or value"]
    ELSE LET s == search(t, key.b)
         IN  IF s.ok
             THEN [t |-> [t EXCEPT !.values[s.k.ref + 1] = value.b \o @], panic |-> ""]
             ELSE LET r == Put(t, key, value)
                  IN  [t |-> r.t, panic |-> r.panic]

\* Append: the result is [t, panic]
BtreeAppend(t, key, value) ==
    IF key.isNil \/ Len(key.b) = 0 \/ value.isNil
    THEN [t |-> t, panic |-> "Illegal nil key or value"]
    ELSE appendFound(t, key, value, search(t, key.b))

\* the append step without page.SetNextPage(newPageRef)
appendRight_NoLink(t, key, ref, pageRefs) ==
    LET n == Len(pageRefs)
        pageRef == pageRefs[n]
        page == PagerGet(t.pager, pageRef)
        parentRef == pageRefs[n - 1]
        nw == PagerNew(t.pager, page.isLeaf)
        newPageRef == nw.ref
        ins1 == IF page.isLeaf
                THEN PageInsert(PagerGet(nw.pager, newPageRef), key, ref)
                ELSE [ok |-> TRUE, page |-> SetFirst(PagerGet(nw.pager, newPageRef), ref)]
        pg1 == PagerSet(nw.pager, newPageRef, ins1.page)
        ins == PageInsert(PagerGet(pg1, parentRef), key, newPageRef)
    IN  [t |-> [t EXCEPT !.pager = PagerSet(pg1, parentRef, ins.page),
                         !.appends = @ + 1],
         ok |-> ins.ok, newPageRef |-> newPageRef, parentRef |-> parentRef]

\* the append step without newPage.Insert(key, ref) on a leaf
appendRight_NoInsert(t, key, ref, pageRefs) ==
    LET n == Len(pageRefs)
        pageRef == pageRefs[n]
        page == PagerGet(t.pager, pageRef)
        parentRef == pageRefs[n - 1]
        nw == PagerNew(t.pager, page.isLeaf)
        newPageRef == nw.ref
        page1 == SetNextPage(page, newPageRef)
        newPage == IF page.isLeaf THEN PagerGet(nw.pager, newPageRef)
                   ELSE SetFirst(PagerGet(nw.pager, newPageRef), ref)
        pg1 == PagerSet(PagerSet(nw.pager, pageRef, page1), newPageRef, newPage)
        ins == PageInsert(PagerGet(pg1, parentRef), key, newPageRef)
    IN  [t |-> [t EXCEPT !.pager = PagerSet(pg1, parentRef, ins.page),
                         !.appends = @ + 1],
         ok |-> ins.ok, newPageRef |-> newPageRef, parentRef |-> parentRef]

\* appendPage, lines 281-296: a fresh page is linked to the right of the page
\* at the tail of the path and the key goes into the parent.  The result is
\* [t, ok, newPageRef, parentRef]; ok is the result of parent.Insert.
appendRight(t, key, ref, pageRefs) ==
    LET n == Len(pageRefs)
        pageRef == pageRefs[n]
        page == PagerGet(t.pager, pageRef)
        parentRef == pageRefs[n - 1]
        nw == PagerNew(t.pager, page.isLeaf)
        newPageRef == nw.ref
        page1 == SetNextPage(page, newPageRef)
        ins1 == IF page.isLeaf
                THEN PageInsert(PagerGet(nw.pager, newPageRef), key, ref)
                ELSE [ok |-> TRUE, page |-> SetFirst(PagerGet(nw.pager, newPageRef), ref)]
        pg1 == PagerSet(PagerSet(nw.pager, pageRef, page1), newPageRef, ins1.page)
        ins == PageInsert(PagerGet(pg1, parentRef), key, newPageRef)
    IN  [t |-> [t EXCEPT !.pager = PagerSet(pg1, parentRef, ins.page),
                         !.appends = @ + 1,
                         !.dropped = IF ins1.ok THEN @ ELSE @ + 1],
         ok |-> ins.ok, newPageRef |-> newPageRef, parentRef |-> parentRef]

RECURSIVE appendPage(_, _, _, _)

\* root promotion that inserts the fresh page into the new root directly
appendRoot_Direct(t2, key, r) ==
    [t2 EXCEPT !.pager =
        PagerSet(t2.pager, t2.root,
                 PageInsert(PagerGet(t2.pager, t2.root), key, r.newPageRef).page)]

\* appendPage, lines 299-303: the key goes into the new root t2.root
appendRoot(t2, key, r) == appendPage(t2, key, r.newPageRef, <<t2.root, r.parentRef>>)

\* appendPage, lines 297-307: what follows the append step with the result r
appendParent(t, key, pageRefs, r) ==
    IF r.ok THEN r.t
    ELSE IF r.parentRef = t.root
    THEN appendRoot(promoteRoot(r.t), key, r)
    ELSE appendPage(r.t, key, r.newPageRef, SubSeq(pageRefs, 1, Len(pageRefs) - 1))

appendPage(t, key, ref, pageRefs) ==
    appendParent(t, key, pageRefs, appendRight(t, key, ref, pageRefs))

\* the descent of PutNext along the last record of every internal page
RECURSIVE rightSpine(_, _, _, _)
rightSpine(t, keyv, ref, pageRefs) ==
    LET page == PagerGet(t.pager, ref)
        rec == GetKey(page, PageSize(page) - 1)
    IN  IF page.isLeaf THEN [panic |-> "", pageRefs |-> pageRefs]
        ELSE IF ~keyLess(rec.key, keyv)
        THEN [panic |-> "out of order put", pageRefs |-> pageRefs]
        ELSE rightSpine(t, keyv, rec.ref, Append(pageRefs, rec.ref))

\* PutNext, lines 333-336: page.Insert on the rightmost leaf, and appendPage
\* when the leaf is full
putNextInsert(t0, key, vref, pageRefs, ins) ==
    IF ins.ok
    THEN [t0 EXCEPT !.pager = PagerSet(t0.pager, Last(pageRefs), ins.page)]
    ELSE appendPage(t0, key, vref, pageRefs)

\* PutNext, line 337: the key is counted
putNextStored(t1) == [t |-> [t1 EXCEPT !.size = @ + 1], panic |-> ""]

\* PutNext with vref read after the value was appended to the arena
putNextFound_LateRef(t, keyv, valuev, d) ==
    IF d.panic # "" THEN [t |-> t, panic |-> d.panic]
    ELSE putNextStored(
            putNextInsert([t EXCEPT !.values = Append(t.values, copyBytes(valuev))],
                          copyBytes(keyv), Len(t.values) + 1, d.pageRefs,
                          PageInsert(PagerGet(t.pager, Last(d.pageRefs)),
                                     copyBytes(keyv), Len(t.values) + 1)))

\* PutNext, lines 321-337: d is the result of the descent
putNextFound(t, keyv, valuev, d) ==
    IF d.panic # "" THEN [t |-> t, panic |-> d.panic]
    ELSE putNextStored(
            putNextInsert([t EXCEPT !.values = Append(t.values, copyBytes(valuev))],
                          copyBytes(keyv), Len(t.values), d.pageRefs,
                          PageInsert(PagerGet(t.pager, Last(d.pageRefs)),
                                     copyBytes(keyv), Len(t.values))))

\* PutNext that splits the full leaf instead of appending a page
PutNext_Split(t, keyv, valuev) ==
    IF keyv.isNil \/ Len(keyv.b) = 0 \/ valuev.isNil
    THEN [t |-> t, panic |-> "Illegal nil key or value"]
    ELSE LET d == rightSpine(t, keyv.b, t.root, <<t.root>>)
         IN  IF d.panic # "" THEN [t |-> t, panic |-> d.panic]
             ELSE LET vref == Len(t.values)
                      t0 == [t EXCEPT !.values = Append(t.values, valuev.b)]
                      pageRef == Last(d.pageRefs)
                      ins == PageInsert(PagerGet(t0.pager, pageRef), keyv.b, vref)
                      t1 == IF ins.ok
                            THEN [t0 EXCEPT !.pager = PagerSet(t0.pager, pageRef, ins.page)]
                            ELSE split(t0, keyv.b, vref, d.pageRefs)
                  IN  [t |-> [t1 EXCEPT !.size = @ + 1], panic |-> ""]

\* PutNext: the result is [t, panic]
PutNext(t, keyv, valuev) ==
    IF keyv.isNil \/ Len(keyv.b) = 0 \/ valuev.isNil
    THEN [t |-> t, panic |-> "Illegal nil key or value"]
    ELSE putNextFound(t, keyv.b, valuev.b, rightSpine(t, keyv.b, t.root, <<t.root>>))

(***************************************************************************)
(* The iterator (btree.go: btreeIter).  An iterator is the record          *)
(* [prefix, pos, page, done]: pos is the cursor of the page iterator, page *)
(* the reference of the current leaf.                                      *)
(***************************************************************************)
\* Start: the result is [panic, it]
Start(t, prefix) ==
    IF prefix.isNil
    THEN [panic |-> "Illegal key nil",
          it |-> [prefix |-> <<>>, pos |-> 1, page |-> -1, done |-> TRUE]]
    ELSE LET s == search(t, prefix.b)
             ref == Last(s.pageRefs)
             page == PagerGet(t.pager, ref)
         IN  [panic |-> "",
              it |-> [prefix |-> prefix.b, pos |-> PageStart(page, prefix.b),
                      page |-> ref, done |-> FALSE]]

\* Next that stops at the end of the first leaf
IterNext_NoNextPage(t, i) ==
    IF i.done THEN [it |-> i, ok |-> FALSE, key |-> <<>>, value |-> <<>>]
    ELSE LET r == PageIterNext(PagerGet(t.pager, i.page), i.prefix, i.pos)
         IN  IF r.ok
             THEN [it |-> [i EXCEPT !.pos = r.pos], ok |-> TRUE,
                   key |-> r.key, value |-> t.values[r.ref + 1]]
             ELSE [it |-> [i EXCEPT !.done = TRUE], ok |-> FALSE,
                   key |-> <<>>, value |-> <<>>]

\* btreeIter.Next: the result is [it, ok, key, value]
IterNext(t, i) ==
    IF i.done THEN [it |-> i, ok |-> FALSE, key |-> <<>>, value |-> <<>>]
    ELSE LET r == PageIterNext(PagerGet(t.pager, i.page), i.prefix, i.pos)
         IN  IF r.ok
             THEN [it |-> [i EXCEPT !.pos = r.pos], ok |-> TRUE,
                   key |-> r.key, value |-> t.values[r.ref + 1]]
             ELSE LET n == NextPage(PagerGet(t.pager, i.page))
                  IN  IF n = -1
                      THEN [it |-> [i EXCEPT !.done = TRUE], ok |-> FALSE,
                            key |-> <<>>, value |-> <<>>]
                      ELSE LET page == PagerGet(t.pager, n)
                               pos == PageStart(page, i.prefix)
                               r2 == PageIterNext(page, i.prefix, pos)
                           IN  IF ~r2.ok
                               THEN [it |-> [i EXCEPT !.page = n, !.pos = pos,
                                                      !.done = TRUE],
                                     ok |-> FALSE, key |-> <<>>, value |-> <<>>]
                               ELSE [it |-> [i EXCEPT !.page = n, !.pos = r2.pos],
                                     ok |-> TRUE, key |-> r2.key,
                                     value |-> t.values[r2.ref + 1]]

\* the records an iterator yields until Next reports exhaustion
RECURSIVE Drain(_, _)
Drain(t, i) ==
    LET r == IterNext(t, i)
    IN  IF r.ok THEN <<[key |-> r.key, value |-> r.value]>> \o Drain(t, r.it)
        ELSE <<>>

\* Start(prefix) drained with Next
Scan(t, prefix) == Drain(t, Start(t, Slice(prefix)).it)

ScanKeys(t, prefix) ==
    LET recs == Scan(t, prefix)
    IN  [i \in 1..Len(recs) |-> recs[i].key]

(***************************************************************************)
(* The consistency checker (btree.go: checkPage, CheckConsistency).  The   *)
(* result is the error message, "" for nil.  prev of the first pass and    *)
(* prevk of the internal pages are never assigned inside their loops.      *)
(***************************************************************************)
RECURSIVE checkLeafFrom(_, _, _)
checkLeafFrom(page, i, prev) ==
    IF i >= PageSize(page) THEN ""
    ELSE LET rec == GetKey(page, i)
         IN  IF ~keyLess(prev, rec.key) THEN "Expect strict ordering"
             ELSE IF rec.ref < 0 THEN "value reference cannot be < 0"
             ELSE checkLeafFrom(page, i + 1, rec.key)

RECURSIVE checkPage(_, _, _, _)
RECURSIVE checkInternalFrom(_, _, _, _, _, _)
checkInternalFrom(t, page, i, checkMinKey, minKey, prevk) ==
    IF i >= PageSize(page) THEN ""
    ELSE LET rec == GetKey(page, i)
         IN  IF checkMinKey /\ ~keyLess(minKey, rec.key)
             THEN "Expect parent key to be smaller or equal to all in referred to child page"
             ELSE IF ~keyLess(prevk, rec.key) THEN "Expect strict ordering"
             ELSE IF rec.ref < 0 THEN "value reference cannot be < 0"
             ELSE LET err == checkPage(t, PagerGet(t.pager, rec.ref), TRUE, rec.key)
                  IN  IF err # "" THEN err
                      ELSE checkInternalFrom(t, page, i + 1, checkMinKey, minKey, prevk)

checkPage(t, page, checkMinKey, minKey) ==
    IF page.isLeaf THEN checkLeafFrom(page, 0, <<>>)
    ELSE LET prev == GetKey(page, 0)
         IN  IF prev.ref = -1 /\ PageSize(page) > 1
             THEN "Expected internal node to refer to other pages"
             ELSE checkInternalFrom(t, page, 1, checkMinKey, minKey, prev.key)

\* the loop of the first pass over the scanned keys ks, from index i
RECURSIVE checkScanFrom(_, _, _)
checkScanFrom(ks, i, prev) ==
    IF i > Len(ks) THEN ""
    ELSE IF Len(ks[i]) = 0 THEN "Got empty key"
    ELSE IF ~keyLess(prev, ks[i]) THEN "Expect strict ordering"
    ELSE checkScanFrom(ks, i + 1, prev)

CheckConsistency(t) ==
    LET ks == ScanKeys(t, <<>>)
        err == checkScanFrom(ks, 1, <<>>)
    IN  IF err # "" THEN err
        ELSE IF Len(ks) # Size(t) THEN "Expected size, got count"
        ELSE checkPage(t, PagerGet(t.pager, t.root), FALSE, <<>>)

(***************************************************************************)
(* The state machine.  b is the tree.  The other variables observe the     *)
(* run: written maps every key written so far to the value a reader must   *)
(* see, misuse is the call that broke a precondition (NoCall while every   *)
(* call was legal), devs counts the deviations of the run, onlyPutNext     *)
(* says that the run consists of PutNext calls only, fullSeen that some    *)
(* Page.Insert of an insertion returned false (the pager then allocated a  *)
(* page).  A fatal failure ends the run (its message is b.panic); so does  *)
(* a PutNext that breaks its contract unnoticed.                           *)
(***************************************************************************)
VARIABLES b, written, misuse, devs, onlyPutNext, fullSeen

vars == <<b, written, misuse, devs, onlyPutNext, fullSeen>>

\* the universe in ascending order
KeyOrder ==
    LET N == Cardinality(KeyUniverse)
        ranked == {<<1 + Cardinality({u \in KeyUniverse : keyLess(u, k)}), k>> :
                      k \in KeyUniverse}
        at == [r \in 1..N |-> (CHOOSE p \in ranked : p[1] = r)[2]]
    IN  SubSeq(at, 1, N)

NKeys == Len(KeyOrder)

Present == DOMAIN written

\* rank of the greatest key in the set S of keys, 0 when S is empty
TopRank(S) ==
    LET R == {r \in 1..NKeys : KeyOrder[r] \in S}
    IN  IF R = {} THEN 0 ELSE CHOOSE r \in R : \A q \in R : q <= r

\* the bound of the exploration: n keys and d deviations
Fits(n, d) == n + DevCost * d <= MaxWork

\* a key greater than every key written so far
AboveAll(k) == \A u \in Present : keyLess(u, k)

\* the value of a write of an existing key
EditValues == {<<>>, <<MaxByte + 1>>}

Call(op, k, v, cost) == [op |-> op, key |-> k, value |-> v, cost |-> cost]

NoCall == Call("", NilSlice, NilSlice, 0)

\* calls that break the preconditions on the arguments
InvalidCalls(op) ==
    IF Fits(Cardinality(Present), devs + 1)
    THEN {Call(op, NilSlice, Slice(<<1>>), 1), Call(op, Slice(<<>>), Slice(<<1>>), 1),
          Call(op, Slice(<<1>>), NilSlice, 1)}
    ELSE {}

ValidArgs(c) == ~(c.key.isNil \/ Len(c.key.b) = 0 \/ c.value.isNil)

\* first writes of the key of rank r, which skip c keys of the universe,
\* into a tree of n keys: the value is the key's bytes, or empty
FirstWrites(op, r, c, n) ==
    LET k == KeyOrder[r]
    IN  (IF Fits(n + 1, devs + c) THEN {Call(op, Slice(k), Slice(k), c)} ELSE {})
            \cup (IF Fits(n + 1, devs + c + 1)
                  THEN {Call(op, Slice(k), Slice(<<>>), c + 1)} ELSE {})

\* first writes of a key above every key written so far
AscendingCalls(op) ==
    LET top == TopRank(Present)
        n == Cardinality(Present)
    IN  UNION {FirstWrites(op, r, r - top - 1, n) :
                  r \in {q \in (top + 1)..NKeys : Fits(n + 1, devs + q - top - 1)}}

\* first writes of a key below the greatest key written so far
FillCalls(op) ==
    LET top == TopRank(Present)
        n == Cardinality(Present)
    IN  UNION {FirstWrites(op, r, 0, n) :
                  r \in {q \in 1..top : KeyOrder[q] \notin Present}}

\* writes of a key that is present
Rewrites(op) ==
    IF Fits(Cardinality(Present), devs + 1)
    THEN {Call(op, Slice(k), Slice(v), 1) : k \in Present, v \in EditValues}
    ELSE {}

PutCalls(op) ==
    AscendingCalls(op) \cup FillCalls(op) \cup Rewrites(op) \cup InvalidCalls(op)

\* PutNext with a key that is not above every earlier key
PutNextIllegalCalls ==
    IF Fits(Cardinality(Present) + 1, devs + 1)
    THEN {Call("PutNext", Slice(KeyOrder[r]), Slice(KeyOrder[r]), 1) :
             r \in 1..TopRank(Present)}
    ELSE {}

PutNextCalls ==
    AscendingCalls("PutNext") \cup PutNextIllegalCalls \cup InvalidCalls("PutNext")

Upd(w, k, v) == [x \in (DOMAIN w) \cup {k} |-> IF x = k THEN v ELSE w[x]]

\* the tree after a call: a fatal failure leaves its message in panic
After(t, panic) == IF panic = "" THEN t ELSE [t EXCEPT !.panic = panic]

Init ==
    /\ b = NewInMemoryBtree
    /\ written = [k \in {} |-> <<>>]
    /\ misuse = NoCall
    /\ devs = 0
    /\ onlyPutNext = TRUE
    /\ fullSeen = FALSE

\* no call follows a fatal failure or a broken contract
Running == misuse = NoCall /\ b.panic = ""

\* the call c returned r (the tree r.t, the failure r.panic): a reader must
\* see the value v under the key of c, legal says that c kept its precondition
Returned(c, r, v, legal, putNextOnly) ==
    /\ b' = After(r.t, r.panic)
    /\ written' = IF r.panic # "" THEN written ELSE Upd(written, c.key.b, v)
    /\ misuse' = IF legal THEN NoCall ELSE c
    /\ devs' = devs + c.cost
    /\ onlyPutNext' = putNextOnly
    /\ fullSeen' = (fullSeen \/ Len(r.t.pager) > Len(b.pager))

PutAct ==
    /\ Running
    /\ \E c \in PutCalls("Put") :
         Returned(c, Put(b, c.key, c.value), c.value.b, ValidArgs(c), FALSE)

AppendAct ==
    /\ Running
    /\ \E c \in PutCalls("Append") :
         Returned(c, BtreeAppend(b, c.key, c.value),
                  IF c.key.b \in Present THEN written[c.key.b] \o c.value.b
                  ELSE c.value.b,
                  ValidArgs(c), FALSE)

PutNextAct ==
    /\ Running
    /\ \E c \in PutNextCalls :
         Returned(c, PutNext(b, c.key, c.value), c.value.b,
                  ValidArgs(c) /\ AboveAll(c.key.b), onlyPutNext)

Next == PutAct \/ AppendAct \/ PutNextAct

Spec == Init /\ [][Next]_vars

(***************************************************************************)
(* Properties.                                                             *)
(***************************************************************************)
\* the leaf that holds key k, as search finds it
LeafOf(t, k) == Last(search(t, k).pageRefs)

\* the keys of the universe, in ascending order, that are in S and start with p
Matching(S, p) == SelectSeq(KeyOrder, LAMBDA k : k \in S /\ HasPrefix(k, p))

\* the number of records on the leaf pages of the pager
RECURSIVE LeafRecords(_, _)
LeafRecords(pg, i) ==
    IF i > Len(pg) THEN 0
    ELSE (IF pg[i].isLeaf THEN PageSize(pg[i]) ELSE 0) + LeafRecords(pg, i + 1)

\* C1: after a legal run, Get(k) finds every written key with the value most
\* recently written for it (the last Put or PutNext value followed by the
\* later Appends, in order), and finds no key that was never written.
C1_GetReturnsLatest ==
    Running =>
        \A k \in KeyUniverse :
            Get(b, Slice(k)) =
                IF k \in Present
                THEN [panic |-> "", ok |-> TRUE, value |-> written[k]]
                ELSE [panic |-> "", ok |-> FALSE, value |-> <<>>]

\* a key was overwritten by Put and then extended by Append, in a tree that
\* has split
C1_Witness ==
    /\ Running
    /\ b.splits > 0
    /\ \E k \in Present :
          /\ written[k] = <<MaxByte + 1, MaxByte + 1>>
          /\ Get(b, Slice(k)).value = written[k]

\* C2: after a legal run, Start(p) drained with Next yields exactly the
\* stored keys that start with p, each once, in strict ascending order, for
\* every prefix p (the empty one included).
C2_ScanYieldsPrefixRange ==
    Running => \A p \in PrefixUniverse : ScanKeys(b, p) = Matching(Present, p)

\* for some prefix the matching keys lie on more than one leaf, and for some
\* prefix the leaf reached by the descent holds only smaller keys while the
\* scan still yields keys
C2_Witness ==
    /\ Running
    /\ \E p \in PrefixUniverse \ {<<>>} :
          \E k1, k2 \in Present :
              /\ HasPrefix(k1, p) /\ HasPrefix(k2, p)
              /\ LeafOf(b, k1) # LeafOf(b, k2)
    /\ \E p \in PrefixUniverse \ {<<>>} :
          LET leaf == PagerGet(b.pager, LeafOf(b, p))
          IN  /\ PageSize(leaf) > 0
              /\ \A i \in 1..Len(leaf.keys) : keyLess(leaf.keys[i].key, p)
              /\ Len(ScanKeys(b, p)) > 0

\* C3: after a legal run, Size() is the number of distinct keys written and
\* the number of records on the leaf pages.
C3_SizeCountsDistinctKeys ==
    Running =>
        /\ Size(b) = Cardinality(Present)
        /\ Size(b) = LeafRecords(b.pager, 1)

\* an existing key was written again in a tree that has split
C3_Witness ==
    /\ Running
    /\ b.splits > 0
    /\ \E k \in Present : written[k] = <<MaxByte + 1>>
    /\ Size(b) = Cardinality(Present)

\* C4: in every state of a legal run and for every non-empty key k, Put(k, v)
\* reports replaced exactly when k is in the tree.
C4_ReplacedIffPresent ==
    Running =>
        \A k \in KeyUniverse :
            LET r == Put(b, Slice(k), Slice(<<1>>))
            IN  r.panic = "" /\ (r.replaced <=> k \in Present)

\* a key that a split moved to the new leaf is reported as replaced
C4_Witness ==
    /\ Running
    /\ b.splits > 0
    /\ \E k \in Present :
          /\ LeafOf(b, k) # 1
          /\ Put(b, Slice(k), Slice(<<1>>)).replaced

\* C5: CheckConsistency returns nil in every state of a legal run.
C5_CheckConsistencyOk == Running => CheckConsistency(b) = ""

\* a tree with leaf and internal splits, pages appended by appendPage and a
\* promoted root passes the check
C5_Witness ==
    /\ Running
    /\ b.root # 0
    /\ b.splits > 0
    /\ b.appends > 0
    /\ CheckConsistency(b) = ""

\* the tree that Put builds from the keys ks[i..], with the values of w
RECURSIVE PutAll(_, _, _, _)
PutAll(t, ks, w, i) ==
    IF i > Len(ks) THEN t
    ELSE PutAll(Put(t, Slice(ks[i]), Slice(w[ks[i]])).t, ks, w, i + 1)

\* the keys written so far inserted by Put, in ascending order, into a fresh tree
PutTwin == PutAll(NewInMemoryBtree, Matching(Present, <<>>), written, 1)

\* C6: ascending keys inserted with PutNext into a fresh tree give the same
\* full scan as the same keys inserted with Put into a fresh tree.
C6_PutNextSameKeysAsPut ==
    (Running /\ onlyPutNext) => ScanKeys(b, <<>>) = ScanKeys(PutTwin, <<>>)

\* a run of PutNext that appended pages and a Put twin that split pages:
\* different page structures, same scan
C6_Witness ==
    /\ Running /\ onlyPutNext
    /\ b.appends > 1
    /\ PutTwin.splits > 1
    /\ PutTwin.pager # b.pager
    /\ ScanKeys(b, <<>>) = ScanKeys(PutTwin, <<>>)

\* C7: PutNext fails fatally whenever its key is not strictly greater than
\* every key written before.
C7_OutOfOrderPutNextFails ==
    (misuse.op = "PutNext" /\ ValidArgs(misuse)) => b.panic # ""

\* what the argument checks of the operations answer on the tree t
ArgumentChecks(t) ==
    /\ Get(t, NilSlice).panic # ""
    /\ Get(t, Slice(<<>>)).panic # ""
    /\ Start(t, NilSlice).panic # ""
    /\ Start(t, Slice(<<>>)).panic = ""
    /\ \A op \in {"Put", "Append", "PutNext"} :
          \A c \in {Call(op, NilSlice, Slice(<<1>>), 0),
                    Call(op, Slice(<<>>), Slice(<<1>>), 0),
                    Call(op, NilSlice, NilSlice, 0),
                    Call(op, Slice(KeyOrder[NKeys]), NilSlice, 0)} :
              /\ Put(t, c.key, c.value).panic # ""
              /\ Put(t, c.key, c.value).t = t
              /\ BtreeAppend(t, c.key, c.value).panic # ""
              /\ BtreeAppend(t, c.key, c.value).t = t
              /\ PutNext(t, c.key, c.value).panic # ""
              /\ PutNext(t, c.key, c.value).t = t
    /\ Put(t, Slice(KeyOrder[NKeys]), Slice(<<>>)).panic = ""
    /\ BtreeAppend(t, Slice(KeyOrder[NKeys]), Slice(<<>>)).panic = ""
    /\ PutNext(t, Slice(KeyOrder[NKeys]), Slice(<<>>)).panic = ""

\* C8: a call with an empty or nil key, a nil value or a nil prefix fails
\* fatally and leaves root, size, pages and values as they were; an empty
\* value and an empty prefix are accepted.
C8_InvalidArgumentsFail ==
    [][/\ (misuse' # NoCall /\ ~ValidArgs(misuse')) =>
              /\ b'.panic # ""
              /\ b' = [b EXCEPT !.panic = b'.panic]
              /\ written' = written
       /\ ArgumentChecks(b)]_vars

\* a call with invalid arguments failed on a tree that holds a key written
\* with an empty value
C8_Witness ==
    /\ misuse # NoCall
    /\ ~ValidArgs(misuse)
    /\ b.panic = "Illegal nil key or value"
    /\ \E k \in Present : written[k] = <<>> /\ Get(b, Slice(k)).ok

IsPrefixOf(s1, s2) == Len(s1) <= Len(s2) /\ SubSeq(s2, 1, Len(s1)) = s1

\* C9: in a run of PutNext calls only, Page.Split is never called, the
\* records of a page stay where they are, and a page changes its sibling link
\* only when it is full and gains a fresh right sibling.
C9_PutNextMovesNothing ==
    [][(onlyPutNext' /\ misuse' = NoCall /\ b'.panic = "") =>
          /\ b'.splits = 0
          /\ Len(b.pager) <= Len(b'.pager)
          /\ \A i \in 1..Len(b.pager) :
                /\ IsPrefixOf(b.pager[i].keys, b'.pager[i].keys)
                /\ \/ b'.pager[i].nextPage = b.pager[i].nextPage
                   \/ /\ PageFull(b.pager[i])
                      /\ b.pager[i].nextPage = -1
                      /\ b'.pager[i].nextPage >= Len(b.pager)
          /\ \A j \in (Len(b.pager) + 1)..Len(b'.pager) :
                \A n \in RealIdx(b'.pager[j]) : b'.pager[j].keys[n].key \notin Present]_vars

\* a run of PutNext calls only that promoted the root
C9_Witness ==
    /\ Running /\ onlyPutNext
    /\ b.root # 0
    /\ b.appends > 0
    /\ b.splits = 0

\* the pages of the subtree below the page ref, ref included
RECURSIVE Subtree(_, _)
Subtree(t, ref) ==
    LET page == PagerGet(t.pager, ref)
    IN  IF page.isLeaf THEN {ref}
        ELSE {ref} \cup UNION {Subtree(t, page.keys[i].ref) : i \in 1..Len(page.keys)}

InternalPages(t) == {r \in Subtree(t, t.root) : ~PagerGet(t.pager, r).isLeaf}

\* C10 as stated: once an insertion has found a page full, the root is
\* internal and every internal page reachable from the root has size >= 2.
C10_InternalPagesHaveSeparator ==
    (Running /\ fullSeen) =>
        /\ ~PagerGet(b.pager, b.root).isLeaf
        /\ \A r \in InternalPages(b) : PageSize(PagerGet(b.pager, r)) >= 2

\* C10 amended: once an insertion has found a page full, the root is internal
\* with size >= 2, and every internal page reachable from the root has
\* size >= 2, except that after an appendPage the last internal page of a
\* level (nextPage = -1) may hold its first reference only.
C10_InternalPagesAmended ==
    (Running /\ fullSeen) =>
        /\ ~PagerGet(b.pager, b.root).isLeaf
        /\ PageSize(PagerGet(b.pager, b.root)) >= 2
        /\ \A r \in InternalPages(b) :
              LET page == PagerGet(b.pager, r)
              IN  \/ PageSize(page) >= 2
                  \/ /\ PageSize(page) = 1
                     /\ b.appends > 0
                     /\ NextPage(page) = -1
                     /\ First(page) >= 0

\* a tree that has split and holds an internal page with its first
\* reference only
C10_Witness ==
    /\ Running /\ fullSeen
    /\ b.splits > 0
    /\ PageSize(PagerGet(b.pager, b.root)) >= 2
    /\ \E r \in InternalPages(b) : PageSize(PagerGet(b.pager, r)) = 1

\* the leaf reached from the page ref through first references only
RECURSIVE LeftmostLeaf(_, _)
LeftmostLeaf(t, ref) ==
    LET page == PagerGet(t.pager, ref)
    IN  IF page.isLeaf THEN ref ELSE LeftmostLeaf(t, First(page))

\* the pages met from ref along nextPage, at most fuel of them
RECURSIVE Chain(_, _, _)
Chain(t, ref, fuel) ==
    IF ref = -1 \/ fuel = 0 THEN <<>>
    ELSE <<ref>> \o Chain(t, NextPage(PagerGet(t.pager, ref)), fuel - 1)

LeafChain(t) == Chain(t, LeftmostLeaf(t, t.root), Len(t.pager) + 1)

Leaves(t) == {r \in Subtree(t, t.root) : PagerGet(t.pager, r).isLeaf}

\* the keys of the leaves in the sequence refs of leaf references, in order
RECURSIVE ChainKeys(_, _, _)
ChainKeys(t, refs, i) ==
    IF i > Len(refs) THEN <<>>
    ELSE LET page == PagerGet(t.pager, refs[i])
         IN  [n \in 1..Len(page.keys) |-> page.keys[n].key] \o ChainKeys(t, refs, i + 1)

StrictlyAscending(ks) == \A i \in 1..(Len(ks) - 1) : keyLess(ks[i], ks[i + 1])

\* C11: following nextPage from the leftmost leaf visits every leaf of the
\* tree exactly once and ends at -1, and the keys met along the chain are in
\* strict ascending order.
C11_LeafChainAscending ==
    Running =>
        LET chain == LeafChain(b)
        IN  /\ Len(chain) <= Len(b.pager)
            /\ \A i, j \in 1..Len(chain) : chain[i] = chain[j] => i = j
            /\ {chain[i] : i \in 1..Len(chain)} = Leaves(b)
            /\ StrictlyAscending(ChainKeys(b, chain, 1))
            /\ ChainKeys(b, chain, 1) = Matching(Present, <<>>)

\* leaves made by a split and leaves made by appendPage on one chain of
\* four leaves or more
C11_Witness ==
    /\ Running
    /\ b.splits > 0 /\ b.appends > 0
    /\ Len(LeafChain(b)) >= 4
    /\ {LeafChain(b)[i] : i \in 1..Len(LeafChain(b))} = Leaves(b)

\* the keys of the leaves below the page ref
SubtreeKeys(t, ref) ==
    UNION {{PagerGet(t.pager, r).keys[n].key : n \in 1..Len(PagerGet(t.pager, r).keys)} :
              r \in {q \in Subtree(t, ref) : PagerGet(t.pager, q).isLeaf}}

\* the separators of the internal page bound the keys below it
Separated(t, page) ==
    /\ \A i \in 2..Len(page.keys) :
          \A k \in SubtreeKeys(t, page.keys[i].ref) :
              /\ keyLessEq(page.keys[i].key, k)
              /\ i < Len(page.keys) => keyLess(k, page.keys[i + 1].key)
    /\ Len(page.keys) >= 2 =>
          \A k \in SubtreeKeys(t, First(page)) : keyLess(k, page.keys[2].key)

\* C12: for every internal page and every real record (key, child) of it, the
\* keys below child are >= key and < the key of the next record, and the keys
\* below the first child are < the smallest real key of the page.
C12_SeparatorsBoundSubtrees ==
    Running => \A r \in InternalPages(b) : Separated(b, PagerGet(b.pager, r))

\* a tree of three levels whose root and whose second level hold real keys
C12_Witness ==
    /\ Running
    /\ b.root # 0
    /\ b.splits > 0
    /\ \E r \in InternalPages(b) \ {b.root} :
          /\ PageSize(PagerGet(b.pager, r)) >= 3
          /\ Separated(b, PagerGet(b.pager, r))
    /\ PageSize(PagerGet(b.pager, b.root)) >= 2

\* C15: the insert of the failing record into one of the halves right after
\* Page.Split succeeds in every invocation of split, and so does the insert
\* of the key into the fresh leaf in appendPage: no record is dropped.
C15_NoIgnoredInsertFails == b.dropped = 0

\* splits at the leaf level and above, a promoted root and appended pages
C15_Witness ==
    /\ Running
    /\ b.root # 0
    /\ b.splits >= 3
    /\ b.appends > 0
    /\ b.dropped = 0
    /\ Size(b) = Len(ScanKeys(b, <<>>))

\* the keys the tree is probed with: every key up to the one after the
\* greatest key written so far
ProbeKeys == {KeyOrder[r] : r \in 1..(IF TopRank(Present) < NKeys
                                      THEN TopRank(Present) + 1 ELSE NKeys)}

\* the path starts at the root and does not meet the root again
RootOnlyAtHead(t, pageRefs) ==
    /\ Len(pageRefs) >= 2
    /\ pageRefs[1] = t.root
    /\ \A i \in 2..Len(pageRefs) : pageRefs[i] # t.root

\* C16: the paths split and appendPage are called with hold the root at
\* their head only, so a full parent that is the root is met with a path of
\* exactly 2 elements and 'insane' is never raised; a step that promotes the
\* root leaves a fresh internal root of size 2 whose first reference is the
\* old root and whose one real record points at the old root's new sibling.
C16_RootPromotion ==
    [][/\ b'.panic # "insane"
       /\ \A k \in ProbeKeys :
             /\ RootOnlyAtHead(b, search(b, k).pageRefs)
             /\ LET d == rightSpine(b, k, b.root, <<b.root>>)
                IN  d.panic = "" => RootOnlyAtHead(b, d.pageRefs)
       /\ b'.root # b.root =>
             LET newRoot == PagerGet(b'.pager, b'.root)
                 oldRoot == PagerGet(b'.pager, b.root)
             IN  /\ b'.root >= Len(b.pager)
                 /\ PageFull(PagerGet(b.pager, b.root))
                 /\ ~newRoot.isLeaf
                 /\ First(newRoot) = b.root
                 /\ PageSize(newRoot) = 2
                 /\ GetKey(newRoot, 1).ref = NextPage(oldRoot)
                 /\ NextPage(oldRoot) >= Len(b.pager)]_vars

\* the root was promoted by a split and has taken the split key
C16_Witness ==
    /\ Running
    /\ b.root # 0
    /\ b.appends = 0
    /\ First(PagerGet(b.pager, b.root)) = 0
    /\ PageSize(PagerGet(b.pager, b.root)) = 2
    /\ GetKey(PagerGet(b.pager, b.root), 1).ref = NextPage(PagerGet(b.pager, 0))

\* the value Append is probed with
ProbeValue == <<MaxByte + 1, 1>>

\* C17: when Append does not find its key, the Put it performs reports
\* replaced = false, 'Did not expect to have to replace the value' is never
\* raised, and Get of the key then returns exactly the appended value.
C17_AppendOfNewKey ==
    /\ b.panic # "Did not expect to have to replace the value"
    /\ Running =>
          \A k \in ProbeKeys \ Present :
              LET r == BtreeAppend(b, Slice(k), Slice(ProbeValue))
              IN  /\ ~search(b, k).ok
                  /\ ~Put(b, Slice(k), Slice(ProbeValue)).replaced
                  /\ r.panic = ""
                  /\ Get(r.t, Slice(k)) = [panic |-> "", ok |-> TRUE, value |-> ProbeValue]

\* Append of a key that is not in the tree splits a leaf of a tree that has
\* split before, and Get returns the value
C17_Witness ==
    /\ Running
    /\ b.splits > 0
    /\ \E k \in ProbeKeys \ Present :
          LET r == BtreeAppend(b, Slice(k), Slice(ProbeValue))
          IN  /\ r.panic = ""
              /\ r.t.splits > b.splits
              /\ Get(r.t, Slice(k)).value = ProbeValue

\* the leaf records of the tree, as pairs <<leaf reference, index>>
LeafRecs(t) ==
    UNION {{<<r, n>> : n \in 1..Len(PagerGet(t.pager, r).keys)} : r \in Leaves(t)}

RecRef(t, p) == PagerGet(t.pager, p[1]).keys[p[2]].ref

\* one slot per leaf record: as many slots as keys, every ref a slot index,
\* no slot shared
ArenaOk(t) ==
    /\ Len(t.values) = Size(t)
    /\ \A p \in LeafRecs(t) : RecRef(t, p) \in 0..(Size(t) - 1)
    /\ \A p, q \in LeafRecs(t) : RecRef(t, p) = RecRef(t, q) => p = q

\* the slot the key k refers to
SlotOf(t, k) == search(t, k).k.ref

\* C18: the arena holds exactly Size() slots, every leaf record refers to a
\* slot in 0..Size()-1, no two leaf records share a slot; a step adds a slot
\* only with the first write of a key and never changes the slot of a key.
C18_SlotsStable ==
    [][(misuse' = NoCall /\ b'.panic = "") =>
          /\ ArenaOk(b) /\ ArenaOk(b')
          /\ Len(b'.values) = Len(b.values) + Cardinality(DOMAIN written' \ Present)
          /\ \A i \in 1..Len(b.values) :
                b'.values[i] # b.values[i] => \E k \in Present : SlotOf(b, k) = i - 1
          /\ \A k \in Present : SlotOf(b', k) = SlotOf(b, k)]_vars

\* a key that moved to another leaf in a split and was written again keeps
\* its slot
C18_Witness ==
    /\ Running
    /\ b.splits > 0
    /\ ArenaOk(b)
    /\ \E k \in Present :
          /\ LeafOf(b, k) # 1
          /\ SlotOf(b, k) < Size(b) - 1
          /\ written[k] = <<MaxByte + 1>>
          /\ b.values[SlotOf(b, k) + 1] = written[k]

\* the lengths of the paths from the page ref down to the leaves below it
RECURSIVE Depths(_, _)
Depths(t, ref) ==
    LET page == PagerGet(t.pager, ref)
    IN  IF page.isLeaf THEN {1}
        ELSE {d + 1 : d \in UNION {Depths(t, page.keys[i].ref) : i \in 1..Len(page.keys)}}

Balanced(t) == Cardinality(Depths(t, t.root)) = 1

Height(t) == CHOOSE d \in Depths(t, t.root) : \A e \in Depths(t, t.root) : e <= d

\* the path runs from the root to a leaf over Height(t) pages
RootToLeaf(t, pageRefs) ==
    /\ Len(pageRefs) = Height(t)
    /\ pageRefs[1] = t.root
    /\ PagerGet(t.pager, Last(pageRefs)).isLeaf

\* C19: every path from the root to a leaf has the same length, at least 2,
\* and the root is not a leaf; a step leaves the height as it is or, exactly
\* when it promotes the root, raises it by one; the paths of search and of
\* the PutNext descent run from the root to a leaf and have 2 elements or more.
C19_HeightBalanced ==
    [][(misuse' = NoCall /\ b'.panic = "") =>
          /\ Balanced(b) /\ Balanced(b')
          /\ Height(b) >= 2 /\ Height(b') >= 2
          /\ ~PagerGet(b'.pager, b'.root).isLeaf
          /\ Height(b') = IF b'.root # b.root THEN Height(b) + 1 ELSE Height(b)
          /\ \A k \in ProbeKeys :
                /\ RootToLeaf(b, search(b, k).pageRefs)
                /\ LET d == rightSpine(b, k, b.root, <<b.root>>)
                   IN  d.panic = "" => RootToLeaf(b, d.pageRefs)]_vars

\* a tree of height 3 whose second level was extended by appendPage
C19_Witness ==
    /\ Running
    /\ Balanced(b)
    /\ Height(b) = 3
    /\ b.appends > 0
    /\ \E r \in InternalPages(b) \ {b.root} : NextPage(PagerGet(b.pager, r)) # -1

\* the keys whose value a reader must see differently after the step
Touched == {k \in DOMAIN written' : k \notin Present \/ written'[k] # written[k]}

\* C20: a write leaves Get of every other key as it was; a Put or Append of
\* a key that is present changes the value slot of that key only: the root
\* reference, the size, the pages with their records and sibling links and
\* every other slot stay as they were.
C20_WriteTouchesOneKey ==
    [][(misuse' = NoCall /\ b'.panic = "") =>
          /\ Cardinality(Touched) <= 1
          /\ \A k \in (ProbeKeys \cup Present) \ Touched :
                Get(b', Slice(k)) = Get(b, Slice(k))
          /\ DOMAIN written' = Present =>
                /\ b'.root = b.root
                /\ Size(b') = Size(b)
                /\ b'.pager = b.pager
                /\ Len(b'.values) = Len(b.values)
                /\ \A i \in 1..Len(b.values) :
                      b'.values[i] # b.values[i] =>
                          \E k \in Touched : SlotOf(b, k) = i - 1]_vars

\* after splits, one key of a leaf carries bytes added by Append to its
\* first value while another key of the same leaf still reads as written
C20_Witness ==
    /\ Running
    /\ b.splits > 0
    /\ \E k, k2 \in Present :
          /\ k # k2
          /\ LeafOf(b, k) = LeafOf(b, k2)
          /\ written[k] = k \o <<MaxByte + 1>>
          /\ Get(b, Slice(k)).value = written[k]
          /\ Get(b, Slice(k2)).value = k2

(***************************************************************************)
(* Corrupted trees.  CheckConsistency is a function of the tree it is      *)
(* called on; the trees it must reject are not the trees the operations    *)
(* build.  SpecCorrupt grows a tree by legal Put and PutNext calls and     *)
(* then damages it once: the key of one record is overwritten, or the      *)
(* size is moved by one.  misuse records the damage, which ends the run.   *)
(***************************************************************************)
\* the keys a record is overwritten with
CorruptKeys == {KeyOrder[r] : r \in 1..(IF TopRank(Present) < NKeys
                                        THEN TopRank(Present) + 1 ELSE NKeys)}

GrowAct ==
    /\ PutAct \/ PutNextAct
    /\ devs' = 0
    /\ misuse' = NoCall

CorruptKeyAct ==
    /\ Running
    /\ \E ref \in Subtree(b, b.root), k \in CorruptKeys :
          \E i \in RealIdx(PagerGet(b.pager, ref)) :
             /\ PagerGet(b.pager, ref).keys[i].key # k
             /\ b' = [b EXCEPT !.pager[ref + 1].keys[i].key = k]
             /\ misuse' = Call("corrupt", Slice(k), NilSlice, 0)
             /\ UNCHANGED <<written, devs, onlyPutNext, fullSeen>>

CorruptSizeAct ==
    /\ Running
    /\ \E d \in {-1, 1} :
          /\ b.size + d >= 0
          /\ b' = [b EXCEPT !.size = @ + d]
          /\ misuse' = Call("corrupt", NilSlice, NilSlice, 0)
          /\ UNCHANGED <<written, devs, onlyPutNext, fullSeen>>

NextCorrupt == GrowAct \/ CorruptKeyAct \/ CorruptSizeAct

SpecCorrupt == Init /\ [][NextCorrupt]_vars

\* the forward scan meets two consecutive keys k1, k2 with k1 >= k2
ScanDisordered(t) == ~StrictlyAscending(ScanKeys(t, <<>>))

\* C13: CheckConsistency returns an error for every tree whose scan from the
\* empty prefix yields two consecutive keys k1 >= k2, and for every tree
\* whose number of scanned keys differs from its size.
C13_CheckRejectsDisorder ==
    (ScanDisordered(b) \/ Len(ScanKeys(b, <<>>)) # Size(b)) => CheckConsistency(b) # ""

\* some child page holds a key smaller than the separator that points at it
ChildBelowSeparator(t) ==
    \E r \in InternalPages(t) :
        LET page == PagerGet(t.pager, r)
        IN  \E i \in 2..Len(page.keys) :
               LET child == PagerGet(t.pager, page.keys[i].ref)
               IN  \E n \in RealIdx(child) :
                      keyLess(child.keys[n].key, page.keys[i].key)

\* C14: CheckConsistency returns an error for every tree in which some child
\* page, leaf or internal, holds a key smaller than the separator that
\* points at it.
C14_CheckRejectsChildBelowSeparator ==
    ChildBelowSeparator(b) => CheckConsistency(b) # ""

====
